---- MODULE Spec2Model ----
(***************************************************************************)
(* Model of app.py: the Flask handler generate_docs and the two provider   *)
(* clients call_huggingface and call_openai.                               *)
(*                                                                         *)
(* A request is a thread of the server.  Its steps are cut at the points   *)
(* where the code blocks on the network: every action runs the code from   *)
(* one outbound call's return to the next outbound call (or to the HTTP    *)
(* response).  What a provider answers is an input of the step.            *)
(*                                                                         *)
(* Python values are pairs <<type, content>>; text is a sequence of          *)
(* characters or of longer fragments, so that prefix and substring tests   *)
(* are computed and not assumed.  An operation that raises in Python       *)
(* yields the value Exc(<exception name>).                                 *)
(***************************************************************************)
EXTENDS Integers, Sequences, FiniteSets, TLC

VARIABLES
    environ,   \* os.environ: the process-wide configuration
    OpenAI,    \* module global OpenAI: TRUE iff `from openai import OpenAI` worked
    req        \* per request (a thread of the server): its frame, see Frame

vars == <<environ, OpenAI, req>>

Requests == {"r1", "r2"}

\* Largest number of comma-separated pieces in HUGGINGFACE_FALLBACK_MODELS.
MaxPieces == 2

-----------------------------------------------------------------------------
(* Python values *)

\* A value is the pair of its type and its content.
Tag(x) == x[1]
Val(x) == x[2]

None == <<"none", <<>> >>
Num(n) == <<"num", n>>
Str(s) == <<"str", s>>
Char == <<"char", <<>> >>
List(s) == <<"list", s>>
Dict(s) == <<"dict", s>>
Exc(name) == <<"exc", name>>

IsExc(x) == Tag(x) = "exc"

\* The characters of the string literals the code tests with `in` on a value
\* that may itself be a string ('text' is a substring of 'generated_text').
Chars(key) ==
    CASE key = "generated_text" -> <<"generated_", "text">>
      [] key = "text" -> <<"text">>
      [] OTHER -> <<key>>

Substring(needle, hay) ==
    \E i \in 0..(Len(hay) - Len(needle)) :
        \A j \in 1..Len(needle) : hay[i + j] = needle[j]

HasKey(d, key) == \E i \in 1..Len(Val(d)) : Val(d)[i][1] = key

Lookup(d, key) == Val(d)[CHOOSE i \in 1..Len(Val(d)) : Val(d)[i][1] = key][2]

\* isinstance(x, list), isinstance(x, dict)
IsList(x) == Tag(x) = "list"
IsDict(x) == Tag(x) = "dict"

\* `key in x`: "true", "false", or the exception raised.
PyIn(key, x) ==
    CASE Tag(x) = "dict" -> IF HasKey(x, key) THEN "true" ELSE "false"
      [] Tag(x) = "list" -> IF \E i \in 1..Len(Val(x)) : Val(x)[i] = Str(Chars(key))
                         THEN "true" ELSE "false"
      [] Tag(x) = "str" -> IF Substring(Chars(key), Val(x)) THEN "true" ELSE "false"
      [] Tag(x) = "char" -> "false"
      [] OTHER -> "TypeError"

\* `len(x) > 0`: "true", "false", or the exception raised.
PyLenPos(x) ==
    CASE Tag(x) \in {"dict", "list", "str"} -> IF Len(Val(x)) > 0 THEN "true" ELSE "false"
      [] Tag(x) = "char" -> "true"
      [] OTHER -> "TypeError"

\* `x[0]`
PyFirst(x) ==
    CASE Tag(x) = "list" -> IF Len(Val(x)) > 0 THEN Val(x)[1] ELSE Exc("IndexError")
      [] Tag(x) = "str" -> IF Len(Val(x)) > 0 THEN Char ELSE Exc("IndexError")
      [] Tag(x) = "char" -> Char
      [] Tag(x) = "dict" -> Exc("KeyError")
      [] OTHER -> Exc("TypeError")

\* `x[key]` for a string key
PyItem(x, key) ==
    CASE Tag(x) = "dict" -> IF HasKey(x, key) THEN Lookup(x, key) ELSE Exc("KeyError")
      [] OTHER -> Exc("TypeError")

\* `not x`
Falsy(x) ==
    \/ Tag(x) = "none"
    \/ Tag(x) = "num" /\ Val(x) = 0
    \/ Tag(x) \in {"str", "list", "dict"} /\ Len(Val(x)) = 0

\* str(x): the printed form of a value, which is not the value
PyStr(x) == <<"repr", x>>

-----------------------------------------------------------------------------
(* Provider outcomes: the pair (success, text_or_error) *)

Success(text) == [ok |-> TRUE, text |-> text]
Failure(text) == [ok |-> FALSE, text |-> text]
NoMatch == [ok |-> FALSE, text |-> <<"nomatch", <<>> >>]
RequestError(e) == <<"Request error: {e}", e>>
ErrorStatus(status, payload) == <<"Error {status}: {payload}", <<Num(status), payload>>>>
ParseError(e) == <<"Parse error: {e}", e>>
ParseErrorFallback(name) == <<"Parse error from fallback model {fm}", name>>
HFError(e) == <<"HF error: {e}", e>>
Literal(s) == <<"literal", s>>

-----------------------------------------------------------------------------
(* HTTP responses of the inference API, as requests.post returns them *)

\* A transport failure: requests.post raises.
Raised(e) == [kind |-> "raise", status |-> 0, json |-> FALSE, body |-> Exc(e)]

\* A response whose body decodes as JSON (resp.json() returns body).
JsonResponse(status, body) == [kind |-> "http", status |-> status, json |-> TRUE, body |-> body]

\* A response whose body is not JSON (resp.json() raises, resp.text is body).
TextResponse(status, text) == [kind |-> "http", status |-> status, json |-> FALSE, body |-> Str(text)]
NoResponse == [kind |-> "none", status |-> 0, json |-> FALSE, body |-> None]

\* An exception caught by the enclosing try of a parser
Caught(e) == [ok |-> FALSE, text |-> Exc(e)]
IsCaught(o) == ~o.ok /\ Tag(o.text) = "exc"

\* lines 75-76: the list rule of the primary parser
PrimaryListRule(data) ==
    IF IsList(data) /\ Len(Val(data)) > 0
    THEN LET c == PyIn("generated_text", Val(data)[1])
             g == PyItem(Val(data)[1], "generated_text")
         IN  IF c = "true" THEN (IF IsExc(g) THEN Caught(Val(g)) ELSE Success(g))
             ELSE IF c = "false" THEN NoMatch
             ELSE Caught(c)
    ELSE NoMatch

\* lines 83-84: the choices rule of the primary parser (data is a dict)
PrimaryChoicesRule(data) ==
    IF HasKey(data, "choices")
    THEN LET ch == Lookup(data, "choices")
             l == PyLenPos(ch)
             f == PyFirst(ch)
             c == PyIn("text", f)
             g == PyItem(f, "text")
         IN  IF l = "true"
             THEN IF IsExc(f) THEN Caught(Val(f))
                  ELSE IF c = "true" THEN (IF IsExc(g) THEN Caught(Val(g)) ELSE Success(g))
                  ELSE IF c = "false" THEN NoMatch
                  ELSE Caught(c)
             ELSE IF l = "false" THEN NoMatch
             ELSE Caught(l)
    ELSE NoMatch

\* lines 78-84: the dict rules of the primary parser
PrimaryDictRules(data) ==
    IF IsDict(data)
    THEN IF HasKey(data, "generated_text") THEN Success(Lookup(data, "generated_text"))
         ELSE IF HasKey(data, "error") THEN Failure(HFError(Lookup(data, "error")))
         ELSE PrimaryChoicesRule(data)
    ELSE NoMatch

\* lines 72-88: what call_huggingface returns for a primary response of status 200
ParsePrimary(r) ==
    IF ~r.json THEN Failure(ParseError(Exc("JSONDecodeError")))
    ELSE LET data == r.body
             a == PrimaryListRule(data)
             b == PrimaryDictRules(data)
         IN  IF IsCaught(a) THEN Failure(ParseError(a.text))
             ELSE IF a # NoMatch THEN a
             ELSE IF IsCaught(b) THEN Failure(ParseError(b.text))
             ELSE IF b # NoMatch THEN b
             ELSE Success(PyStr(data))

\* lines 56-57: the list rule of the fallback parser
FallbackListRule(data2) ==
    IF IsList(data2) /\ Len(Val(data2)) > 0
    THEN LET c == PyIn("generated_text", Val(data2)[1])
             g == PyItem(Val(data2)[1], "generated_text")
         IN  IF c = "true" THEN (IF IsExc(g) THEN Caught(Val(g)) ELSE Success(g))
             ELSE IF c = "false" THEN NoMatch
             ELSE Caught(c)
    ELSE NoMatch

\* lines 58-59: the generated_text rule of the fallback parser
FallbackTextRule(data2) ==
    IF IsDict(data2) /\ HasKey(data2, "generated_text")
    THEN Success(Lookup(data2, "generated_text"))
    ELSE NoMatch

\* lines 60-61: the choices rule of the fallback parser
FallbackChoicesRule(data2) ==
    IF IsDict(data2) /\ HasKey(data2, "choices")
    THEN LET ch == Lookup(data2, "choices")
             l == PyLenPos(ch)
             f == PyFirst(ch)
             c == PyIn("text", f)
             g == PyItem(f, "text")
         IN  IF l = "true"
             THEN IF IsExc(f) THEN Caught(Val(f))
                  ELSE IF c = "true" THEN (IF IsExc(g) THEN Caught(Val(g)) ELSE Success(g))
                  ELSE IF c = "false" THEN NoMatch
                  ELSE Caught(c)
             ELSE IF l = "false" THEN NoMatch
             ELSE Caught(l)
    ELSE NoMatch

\* lines 54-64: what call_huggingface returns for a response of status 200 from
\* the fallback model called name
ParseFallback(r, name) ==
    IF ~r.json THEN Failure(ParseErrorFallback(name))
    ELSE LET data2 == r.body
             a == FallbackListRule(data2)
             b == FallbackTextRule(data2)
             c == FallbackChoicesRule(data2)
         IN  IF IsCaught(a) THEN Failure(ParseErrorFallback(name))
             ELSE IF a # NoMatch THEN a
             ELSE IF b # NoMatch THEN b
             ELSE IF IsCaught(c) THEN Failure(ParseErrorFallback(name))
             ELSE IF c # NoMatch THEN c
             ELSE Success(PyStr(data2))

\* lines 67-70: the generic error of a non-200 primary response
ErrorOf(r) == Failure(ErrorStatus(r.status, r.body))

-----------------------------------------------------------------------------
(* Text and the environment *)

\* An environment variable: unset, or set to a string (a sequence of characters).
Unset == [set |-> FALSE, val |-> <<>>]
Set(s) == [set |-> TRUE, val |-> s]

\* os.environ.get(name): None when unset
Truthy(e) == e.set /\ Len(e.val) > 0

\* s.startswith(p)
StartsWith(s, p) == Len(s) >= Len(p) /\ SubSeq(s, 1, Len(p)) = p

\* s.strip(): without its leading and trailing blanks
RECURSIVE LStrip(_)
LStrip(s) == IF Len(s) > 0 /\ s[1] = " " THEN LStrip(Tail(s)) ELSE s
RECURSIVE RStrip(_)
RStrip(s) == IF Len(s) > 0 /\ s[Len(s)] = " " THEN RStrip(SubSeq(s, 1, Len(s) - 1)) ELSE s
Strip(s) == RStrip(LStrip(s))

\* s.split(','): the pieces between the commas, empty ones included
RECURSIVE Split(_)
Split(s) ==
    IF \E i \in 1..Len(s) : s[i] = ","
    THEN LET i == CHOOSE k \in 1..Len(s) : s[k] = "," /\ \A j \in 1..(k - 1) : s[j] # ","
         IN  <<SubSeq(s, 1, i - 1)>> \o Split(SubSeq(s, i + 1, Len(s)))
    ELSE <<s>>

\* [m.strip() for m in pieces if m.strip()]
RECURSIVE StripNonEmpty(_)
StripNonEmpty(pieces) ==
    IF pieces = <<>> THEN <<>>
    ELSE IF Strip(Head(pieces)) = <<>> THEN StripNonEmpty(Tail(pieces))
    ELSE <<Strip(Head(pieces))>> \o StripNonEmpty(Tail(pieces))

\* lines 38-42: the built-in fallback list
DefaultFallbackModels == << <<"gpt2">>, <<"bigscience/bloom-560m">>, <<"facebook/opt-350m">> >>

\* lines 38-46: the value of the local fallback_models
FallbackModels(env_fallback) ==
    IF Truthy(env_fallback) THEN StripNonEmpty(Split(env_fallback.val))
    ELSE DefaultFallbackModels

\* line 142: os.environ.get('HUGGINGFACE_MODEL', 'google/flan-t5-large')
HfModel(e) == IF e.set THEN e.val ELSE <<"google/flan-t5-large">>

\* The test of line 140 without its prefix test
HfKeyPresent(hf_key) == Truthy(hf_key)

\* line 140 and line 150: the credential tests
HfKeyOk(hf_key) == Truthy(hf_key) /\ StartsWith(hf_key.val, <<"h", "f", "_">>)
OpenaiKeyOk(openai_key) == Truthy(openai_key) /\ StartsWith(openai_key.val, <<"s", "k", "-">>)

-----------------------------------------------------------------------------
(* The frame of a request *)

\* pc: "accept"   the request has arrived, generate_docs has not run yet
\*     "primary"  blocked in requests.post, line 31
\*     "fallback" blocked in requests.post, line 50
\*     "chat"     blocked in client.chat.completions.create, line 97
\*     "done"     generate_docs has returned
\*     "closed"   no request on this connection
Frame(p) ==
    [pc |-> p,
     raw |-> None,              \* the inbound body
     prompt |-> None,           \* local prompt of generate_docs
     model |-> <<>>,            \* parameter model of call_huggingface
     resp |-> NoResponse,       \* local resp
     fallback_models |-> <<>>,  \* local fallback_models
     fm |-> 0,                  \* position of the loop variable fm in fallback_models
     resp2 |-> NoResponse,      \* local resp2
     called |-> <<>>,           \* history: the provider clients invoked
     calls |-> <<>>,            \* history: the outbound calls, [to, status]
     http |-> <<>>]             \* history: the HTTP responses returned

\* An outbound call and what it returned (NoResponse until it returns)
Call(api, to) == [api |-> api, to |-> to, ret |-> NoResponse]
Returned(q, r) == [q.calls EXCEPT ![Len(q.calls)].ret = r]

\* jsonify({key: text}), status
Respond(q, status, key, text) ==
    [q EXCEPT !.pc = "done",
              !.http = Append(@, [status |-> status, body |-> Dict(<< <<key, text>> >>)])]

\* MapOutcome with the status 502 of lines 147 and 155 left out
MapOutcomeWithoutStatus(q, o) ==
    IF o.ok THEN Respond(q, 200, "documentation", o.text)
    ELSE Respond(q, 200, "error", o.text)

\* lines 144-147 and 152-155: the provider's outcome as an HTTP response
MapOutcome(q, o) ==
    IF o.ok THEN Respond(q, 200, "documentation", o.text)
    ELSE Respond(q, 502, "error", o.text)

-----------------------------------------------------------------------------
(* call_huggingface *)

\* lines 16-31: call_huggingface up to its first requests.post
call_huggingface(q, hf_model) ==
    [q EXCEPT !.model = hf_model,
              !.called = Append(@, "call_huggingface"),
              !.calls = Append(@, Call("hf-inference", hf_model)),
              !.pc = "primary"]

\* NextFallback with the generic error built from the last response received
\* (resp2) in place of the primary one (resp)
NextFallbackLastResponse(q, i) ==
    IF i <= Len(q.fallback_models)
    THEN [q EXCEPT !.fm = i,
                   !.calls = Append(@, Call("hf-inference", q.fallback_models[i])),
                   !.pc = "fallback"]
    ELSE MapOutcome(q, ErrorOf(q.resp2))

\* lines 48-50 and 66-70: the head of the fallback loop at position i, and the
\* generic error once the list is exhausted
NextFallback(q, i) ==
    IF i <= Len(q.fallback_models)
    THEN [q EXCEPT !.fm = i,
                   !.calls = Append(@, Call("hf-inference", q.fallback_models[i])),
                   !.pc = "fallback"]
    ELSE MapOutcome(q, ErrorOf(q.resp))

\* PrimaryReturn with the fallback protocol entered on every status other
\* than 200 (the test of line 37 left out)
PrimaryReturnFallbackOnAnyError(q, r) ==
    LET q0 == [q EXCEPT !.calls = Returned(q, r)]
        q1 == [q0 EXCEPT !.resp = r]
    IN  IF r.kind = "raise" THEN MapOutcome(q0, Failure(RequestError(r.body)))
        ELSE IF r.status # 200
             THEN NextFallback(
                    [q1 EXCEPT !.fallback_models =
                         FallbackModels(environ.HUGGINGFACE_FALLBACK_MODELS)], 1)
        ELSE MapOutcome(q1, ParsePrimary(r))

\* lines 30-88: from the return of the primary requests.post to the next
\* requests.post or to the return of call_huggingface
PrimaryReturn(q, r) ==
    LET q0 == [q EXCEPT !.calls = Returned(q, r)]
        q1 == [q0 EXCEPT !.resp = r]
    IN  IF r.kind = "raise" THEN MapOutcome(q0, Failure(RequestError(r.body)))
        ELSE IF r.status # 200
             THEN IF r.status = 404
                  THEN NextFallback(
                         [q1 EXCEPT !.fallback_models =
                              FallbackModels(environ.HUGGINGFACE_FALLBACK_MODELS)], 1)
                  ELSE MapOutcome(q1, ErrorOf(r))
        ELSE MapOutcome(q1, ParsePrimary(r))

\* FallbackReturn with a parse failure of a 200 response skipped like a
\* non-200 response, the loop going on to the next model
FallbackReturnSkipsParseFailure(q, r2) ==
    LET q0 == [q EXCEPT !.calls = Returned(q, r2)]
        q1 == [q0 EXCEPT !.resp2 = r2]
        o == ParseFallback(r2, q.fallback_models[q.fm])
    IN  IF r2.kind = "raise" THEN NextFallback(q0, q.fm + 1)
        ELSE IF r2.status = 200 /\ o.ok THEN MapOutcome(q1, o)
        ELSE NextFallback(q1, q.fm + 1)

\* lines 49-64: from the return of a fallback requests.post to the next
\* requests.post or to the return of call_huggingface
FallbackReturn(q, r2) ==
    LET q0 == [q EXCEPT !.calls = Returned(q, r2)]
        q1 == [q0 EXCEPT !.resp2 = r2]
    IN  IF r2.kind = "raise" THEN NextFallback(q0, q.fm + 1)
        ELSE IF r2.status = 200
             THEN MapOutcome(q1, ParseFallback(r2, q.fallback_models[q.fm]))
        ELSE NextFallback(q1, q.fm + 1)

-----------------------------------------------------------------------------
(* call_openai *)

\* What client.chat.completions.create returns: an object whose text is
\* reached by attributes, one whose text is reached by subscripts, or one
\* that allows neither; or it raises.
ChatObject(shape, content) == [kind |-> "object", shape |-> shape, content |-> content]
ChatRaised(e) == [kind |-> "raise", shape |-> "", content |-> Exc(e)]

\* The call's entry in the history
ChatLogged(response) ==
    [kind |-> response.kind, status |-> IF response.kind = "raise" THEN 0 ELSE 200,
     json |-> FALSE, body |-> <<response.shape, response.content>>]

\* lines 91-97: call_openai up to client.chat.completions.create; ctor is what
\* OpenAI(api_key=openai_key) does ("ok" or the exception it raises)
call_openai(q, ctor) ==
    LET q0 == [q EXCEPT !.called = Append(@, "call_openai")]
    IN  IF ~OpenAI
        THEN MapOutcome(q0, Failure(Literal("OpenAI client not installed in environment.")))
        ELSE IF ctor # "ok" THEN MapOutcome(q0, Failure(PyStr(Exc(ctor))))
        ELSE [q0 EXCEPT !.calls = Append(@, Call("chat.completions", <<"gpt-3.5-turbo">>)),
                        !.pc = "chat"]

\* lines 97-113: from the return of client.chat.completions.create to the
\* return of call_openai
ChatReturn(q, response) ==
    LET q0 == [q EXCEPT !.calls = Returned(q, ChatLogged(response))]
    IN  IF response.kind = "raise" THEN MapOutcome(q0, Failure(PyStr(response.content)))
        ELSE IF response.shape = "attributes" THEN MapOutcome(q0, Success(response.content))
        ELSE IF response.shape = "subscripts" THEN MapOutcome(q0, Success(response.content))
        ELSE MapOutcome(q0, Success(<<"repr of response", response.content>>))

-----------------------------------------------------------------------------
(* generate_docs *)

\* The inbound POST: no body, a body that is not JSON, or a JSON body.
NoBody == [kind |-> "absent", data |-> None]
NotJson == [kind |-> "notjson", data |-> None]
JsonBody(data) == [kind |-> "json", data |-> data]

\* line 124, request.json: the decoded body, or the exception Flask raises
\* (an HTTPException, which is an Exception)
RequestJson(body) ==
    CASE body.kind = "absent" -> Exc("UnsupportedMediaType")
      [] body.kind = "notjson" -> Exc("BadRequest")
      [] OTHER -> body.data

\* line 124, .get('code')
GetCode(j) ==
    IF IsDict(j) THEN (IF HasKey(j, "code") THEN Lookup(j, "code") ELSE None)
    ELSE Exc("AttributeError")

\* lines 129-133
Prompt(code) == <<"prompt", code>>

\* lines 122-169: generate_docs up to the provider's first outbound call, or to
\* its return when there is none
generate_docs(q, body, ctor) ==
    LET q0 == [q EXCEPT !.raw = body]
        j == RequestJson(body)
        code == GetCode(j)
        q1 == [q0 EXCEPT !.prompt = Prompt(code)]
    IN  IF IsExc(j) THEN Respond(q0, 500, "error", PyStr(j))
        ELSE IF IsExc(code) THEN Respond(q0, 500, "error", PyStr(code))
        ELSE IF Falsy(code) THEN Respond(q0, 400, "error", Literal("No code provided"))
        ELSE IF HfKeyOk(environ.HUGGINGFACE_API_KEY)
             THEN call_huggingface(q1, HfModel(environ.HUGGINGFACE_MODEL))
        ELSE IF OpenaiKeyOk(environ.OPENAI_API_KEY) THEN call_openai(q1, ctor)
        ELSE Respond(q1, 400, "error",
               Literal("No API key found. Set HUGGINGFACE_API_KEY (hf_...) or OPENAI_API_KEY (sk_...)."))

-----------------------------------------------------------------------------
(* The inputs *)

Doc == Str(<<"doc">>)
Obj(key, value) == Dict(<< <<key, value>> >>)
Obj2(k1, v1, k2, v2) == Dict(<< <<k1, v1>>, <<k2, v2>> >>)

\* What a JSON list or a "choices" value may hold first
Elements ==
    { None, Num(1), Str(<<"abc">>), Str(<<"generated_", "text">>), Str(<<"text">>),
      Obj("generated_text", Doc), Obj("text", Doc), Obj("other", Doc),
      List(<<Str(<<"generated_", "text">>)>>) }

\* What "choices" may be
Choices ==
    { List(<<>>), Num(1), None, Str(<<"text">>), Obj("a", Num(1)), Dict(<<>>) }
    \cup { List(<<e>>) : e \in {Num(1), Str(<<"abc">>), Str(<<"text">>),
                                Obj("text", Doc), Obj("other", Doc)} }

\* The decoded JSON bodies of a response of status 200
Bodies ==
    { None, Num(1), Str(<<"abc">>), List(<<>>), Dict(<<>>) }
    \cup { List(<<e>>) : e \in Elements }
    \cup { Obj(k, Doc) : k \in {"generated_text", "error", "text", "other"} }
    \cup { Obj("choices", c) : c \in Choices }
    \cup { Obj2("error", Str(<<"blew up">>), "generated_text", Doc),
           Obj2("error", Str(<<"blew up">>), "choices", List(<<Obj("text", Doc)>>)),
           Obj2("other", Num(1), "choices", List(<<Obj("text", Doc)>>)) }

\* What requests.post may do
Responses ==
    { Raised("ConnectionError") }
    \cup { JsonResponse(200, b) : b \in Bodies }
    \cup { TextResponse(200, <<"<html>">>),
           JsonResponse(404, Obj("error", Str(<<"Model not found">>))),
           TextResponse(404, <<"Not Found">>),
           JsonResponse(503, Obj("error", Str(<<"loading">>))) }

\* What client.chat.completions.create may do
ChatResponses ==
    { ChatRaised("APIError"),
      ChatObject("attributes", Doc), ChatObject("attributes", None),
      ChatObject("subscripts", Doc), ChatObject("opaque", None) }

\* What OpenAI(api_key=...) may do
Constructions == {"ok", "OpenAIError"}

\* The inbound bodies
RawInputs ==
    { NoBody, NotJson }
    \cup { JsonBody(d) : d \in
            { None, Num(1), Str(<<"code">>), List(<<Str(<<"code">>)>>), Dict(<<>>),
              Obj("other", Doc), Obj("code", None), Obj("code", Str(<<>>)),
              Obj("code", Num(0)), Obj("code", List(<<>>)),
              Obj("code", Str(<<"x = 1">>)) } }

\* The values of a credential variable
KeyValues ==
    { Unset, Set(<<>>), Set(<<"h", "f", "_", "k">>), Set(<<"h", "f", "k">>),
      Set(<<"s", "k", "-", "k">>), Set(<<"s", "k", "_", "k">>) }

\* The pieces of HUGGINGFACE_FALLBACK_MODELS between its commas
Pieces == { <<"a">>, <<" ", "b">>, <<>> }

RECURSIVE Join(_)
Join(ps) == IF Len(ps) = 1 THEN ps[1] ELSE ps[1] \o <<",">> \o Join(Tail(ps))

FallbackValues ==
    { Unset } \cup { Set(Join(ps)) : ps \in UNION { [1..n -> Pieces] : n \in 1..MaxPieces } }

ModelValues == { Unset, Set(<<"a">>) }

Environs ==
    [HUGGINGFACE_API_KEY : KeyValues, OPENAI_API_KEY : KeyValues,
     HUGGINGFACE_MODEL : ModelValues, HUGGINGFACE_FALLBACK_MODELS : FallbackValues]

-----------------------------------------------------------------------------
(* The state machine *)

\* Store with fallback_models kept in one module-level list that every
\* request reads and the override of lines 44-46 writes
StoreSharedFallbackList(r, q) ==
    [x \in Requests |->
        IF x = r THEN q ELSE [req[x] EXCEPT !.fallback_models = q.fallback_models]]

\* The locals and parameters of generate_docs, call_huggingface and
\* call_openai live in the frame of the calling thread: a step of request r
\* writes the frame of r and nothing else.
Store(r, q) == [req EXCEPT ![r] = q]

\* One connection, every configuration.
Init ==
    /\ environ \in Environs
    /\ OpenAI \in BOOLEAN
    /\ req = [r \in Requests |-> IF r = "r1" THEN Frame("accept") ELSE Frame("closed")]

\* POST /generate-docs arrives and generate_docs runs to its first outbound call.
Accept(r) ==
    /\ req[r].pc = "accept"
    /\ \E body \in RawInputs, ctor \in Constructions :
           req' = Store(r, generate_docs(req[r], body, ctor))
    /\ UNCHANGED <<environ, OpenAI>>

\* The primary requests.post returns or raises.
PrimaryResponse(r) ==
    /\ req[r].pc = "primary"
    /\ \E response \in Responses : req' = Store(r, PrimaryReturn(req[r], response))
    /\ UNCHANGED <<environ, OpenAI>>

\* A fallback requests.post returns or raises.
FallbackResponse(r) ==
    /\ req[r].pc = "fallback"
    /\ \E response \in Responses : req' = Store(r, FallbackReturn(req[r], response))
    /\ UNCHANGED <<environ, OpenAI>>

\* client.chat.completions.create returns or raises.
ChatResponse(r) ==
    /\ req[r].pc = "chat"
    /\ \E response \in ChatResponses : req' = Store(r, ChatReturn(req[r], response))
    /\ UNCHANGED <<environ, OpenAI>>

RequestStep(r) ==
    \/ Accept(r)
    \/ PrimaryResponse(r)
    \/ FallbackResponse(r)
    \/ ChatResponse(r)

Next == \E r \in Requests : RequestStep(r)

Spec == Init /\ [][Next]_vars

\* Two concurrent connections (the development server is threaded), under
\* one configuration of each kind: the inference API with a two-entry
\* fallback override, the chat API, and no credential.
ConcurrentEnvirons ==
    { [HUGGINGFACE_API_KEY |-> Set(<<"h", "f", "_", "k">>),
       OPENAI_API_KEY |-> Set(<<"s", "k", "-", "k">>),
       HUGGINGFACE_MODEL |-> Unset,
       HUGGINGFACE_FALLBACK_MODELS |-> Set(<<"a", ",", " ", "b">>)],
      [HUGGINGFACE_API_KEY |-> Unset,
       OPENAI_API_KEY |-> Set(<<"s", "k", "-", "k">>),
       HUGGINGFACE_MODEL |-> Unset,
       HUGGINGFACE_FALLBACK_MODELS |-> Unset],
      [HUGGINGFACE_API_KEY |-> Set(<<"h", "f", "k">>),
       OPENAI_API_KEY |-> Unset,
       HUGGINGFACE_MODEL |-> Unset,
       HUGGINGFACE_FALLBACK_MODELS |-> Unset] }

InitConcurrent ==
    /\ environ \in ConcurrentEnvirons
    /\ OpenAI \in BOOLEAN
    /\ req = [r \in Requests |-> Frame("accept")]

SpecConcurrent == InitConcurrent /\ [][Next]_vars

\* One connection, every fallback list and model name, each credential either
\* unset or valid.
InitLive ==
    /\ Init
    /\ environ.HUGGINGFACE_API_KEY \in {Unset, Set(<<"h", "f", "_", "k">>)}
    /\ environ.OPENAI_API_KEY \in {Unset, Set(<<"s", "k", "-", "k">>)}

\* Every handler that can take a step eventually takes one: the server runs
\* the handler of a request it accepted, and every outbound call returns or
\* raises within its timeout.
SpecLive == InitLive /\ [][Next]_vars /\ \A r \in Requests : WF_vars(RequestStep(r))

-----------------------------------------------------------------------------
(* Vocabulary of the properties *)

Done(r) == req[r].pc = "done"
Calls(r) == req[r].calls
Http(r) == req[r].http

\* The configured fallback list
ConfiguredFallbacks == FallbackModels(environ.HUGGINGFACE_FALLBACK_MODELS)

\* What a returned call gave
Is200(c) == c.ret.kind = "http" /\ c.ret.status = 200
IsFailed(c) == c.ret.kind = "raise" \/ (c.ret.kind = "http" /\ c.ret.status # 200)

\* The request went to the inference API and its primary call returned 404
Primary404(r) ==
    /\ Len(Calls(r)) >= 1
    /\ Calls(r)[1].api = "hf-inference"
    /\ Calls(r)[1].ret.kind = "http"
    /\ Calls(r)[1].ret.status = 404

\* ... and every fallback call has failed, and the handler has returned
FallbacksExhausted(r) ==
    /\ Done(r)
    /\ Primary404(r)
    /\ \A i \in 2..Len(Calls(r)) : IsFailed(Calls(r)[i])

\* The HTTP response of a provider outcome
HttpOf(o) ==
    [status |-> IF o.ok THEN 200 ELSE 502,
     body |-> Dict(<< <<IF o.ok THEN "documentation" ELSE "error", o.text>> >>)]

\* The payload of the message "Error <status>: <payload>" in an error response
ErrorPayload(h) == Val(Val(h.body)[1][2])[2]

-----------------------------------------------------------------------------
(* C1 *)

\* C1: when the primary call returns 404 and every fallback call raises or
\* returns a status other than 200 (also when the fallback list is empty), the
\* result is the failure "Error 404: <body of the primary response>", the body
\* being the decoded JSON or the raw text of the primary response; it is never
\* built from a fallback response.
C1_ExhaustedFallbacksReportPrimary404 ==
    \A r \in Requests :
        FallbacksExhausted(r) =>
            LET first == Calls(r)[1].ret
            IN  /\ Http(r) = << HttpOf(Failure(ErrorStatus(404, first.body))) >>
                /\ \A i \in 2..Len(Calls(r)) :
                       Calls(r)[i].ret.body # first.body =>
                           ErrorPayload(Http(r)[1]) # Calls(r)[i].ret.body

\* Both fallbacks of a two-entry list failed, one raising and one answering
\* with a status and a body other than the primary's
C1_Witness ==
    \E r \in Requests :
        /\ FallbacksExhausted(r)
        /\ Len(Calls(r)) = 3
        /\ Calls(r)[2].ret.kind = "raise"
        /\ Calls(r)[3].ret.kind = "http"
        /\ Calls(r)[3].ret.status = 503
        /\ ~Calls(r)[1].ret.json

-----------------------------------------------------------------------------
(* C2 *)

\* C2: after a primary 404 the fallback models are contacted in list order; a
\* fallback whose call raises or returns a status other than 200 is skipped;
\* the first fallback that returns 200 ends the loop: what its response parses
\* to (success or parse failure) is the result and no later fallback is
\* contacted.
C2_FallbacksInOrderStopAtFirst200 ==
    \A r \in Requests :
        Primary404(r) =>
            LET cs == Calls(r)
                n == Len(cs)
            IN  /\ n <= 1 + Len(ConfiguredFallbacks)
                /\ \A i \in 2..n : cs[i].to = ConfiguredFallbacks[i - 1]
                /\ \A i \in 2..(n - 1) : IsFailed(cs[i])
                /\ (n >= 2 /\ Is200(cs[n])) =>
                       /\ Done(r)
                       /\ Http(r) = << HttpOf(ParseFallback(cs[n].ret, cs[n].to)) >>
                /\ (n >= 2 /\ IsFailed(cs[n])) => n = 1 + Len(ConfiguredFallbacks)
                /\ (Done(r) /\ n = 1) => ConfiguredFallbacks = <<>>

\* The first fallback failed, the second one returned 200 with a body that
\* does not parse, and the third one was never contacted
C2_Witness ==
    \E r \in Requests :
        /\ Primary404(r)
        /\ Done(r)
        /\ Len(ConfiguredFallbacks) = 3
        /\ Len(Calls(r)) = 3
        /\ IsFailed(Calls(r)[2])
        /\ Is200(Calls(r)[3])
        /\ Http(r)[1].status = 502

-----------------------------------------------------------------------------
(* C3 *)

\* C3: a 200 response of a fallback model is classified as the primary 200
\* path classifies the same decoded body: same success flag, and the same text
\* on success; in particular a mapping with "error" and no "generated_text"
\* is a failure.
C3_FallbackParsesLikePrimary ==
    \A r \in Requests :
        LET cs == Calls(r)
            n == Len(cs)
        IN  (Done(r) /\ Primary404(r) /\ n >= 2 /\ Is200(cs[n]) /\ cs[n].ret.json) =>
                LET p == ParsePrimary(cs[n].ret)
                IN  /\ Http(r)[1].status = HttpOf(p).status
                    /\ p.ok => Http(r)[1] = HttpOf(p)

-----------------------------------------------------------------------------
(* C4 *)

\* The inbound body carries a non-empty code
CodeGiven(r) ==
    LET b == req[r].raw
    IN  /\ b.kind = "json"
        /\ IsDict(b.data)
        /\ HasKey(b.data, "code")
        /\ ~Falsy(Lookup(b.data, "code"))

\* The credential exists and starts with the prefix
HasPrefix(e, prefix) == e.set /\ StartsWith(e.val, prefix)

NoApiKey ==
    [status |-> 400,
     body |-> Dict(<< <<"error",
         Literal("No API key found. Set HUGGINGFACE_API_KEY (hf_...) or OPENAI_API_KEY (sk_...).")>> >>)]

\* C4: for a non-empty code, call_huggingface is the provider iff the
\* inference credential exists and starts with "hf_"; otherwise call_openai is
\* iff the chat credential exists and starts with "sk-"; otherwise no provider
\* is contacted and the response is 400 "No API key found".  At most one
\* provider is ever invoked: call_openai is not called after call_huggingface
\* failed.
C4_ExactlyOneProviderByPrefix ==
    \A r \in Requests :
        (req[r].pc \notin {"accept", "closed"} /\ CodeGiven(r)) =>
            LET a == HasPrefix(environ.HUGGINGFACE_API_KEY, <<"h", "f", "_">>)
                b == HasPrefix(environ.OPENAI_API_KEY, <<"s", "k", "-">>)
                q == req[r]
            IN  /\ Len(q.called) <= 1
                /\ (q.called = <<"call_huggingface">>) <=> a
                /\ (q.called = <<"call_openai">>) <=> (~a /\ b)
                /\ \A i \in 1..Len(q.calls) :
                       q.calls[i].api = IF a THEN "hf-inference" ELSE "chat.completions"
                /\ (~a /\ ~b) => (q.calls = <<>> /\ q.http = <<NoApiKey>>)

\* Both credentials are valid, call_huggingface failed, and call_openai was
\* not called
C4_Witness ==
    \E r \in Requests :
        /\ Done(r)
        /\ CodeGiven(r)
        /\ HasPrefix(environ.OPENAI_API_KEY, <<"s", "k", "-">>)
        /\ OpenAI
        /\ req[r].called = <<"call_huggingface">>
        /\ Http(r)[1].status = 502

-----------------------------------------------------------------------------
(* C5 *)

\* C5: a POST whose code is missing or empty (also when the body is absent,
\* not JSON, or not a JSON object) is answered 400 with an error body, and no
\* outbound call was made.
C5_MissingCodeIs400 ==
    \A r \in Requests :
        (Done(r) /\ ~CodeGiven(r)) =>
            /\ Len(Http(r)) = 1
            /\ Http(r)[1].status = 400
            /\ HasKey(Http(r)[1].body, "error")
            /\ Calls(r) = <<>>

-----------------------------------------------------------------------------
(* C6 *)

\* The kinds of provider failure
SemanticError(c) ==
    /\ Is200(c)
    /\ c.ret.json
    /\ IsDict(c.ret.body)
    /\ HasKey(c.ret.body, "error")
    /\ ~HasKey(c.ret.body, "generated_text")

ProviderFailed(r) ==
    LET cs == Calls(r)
        n == Len(cs)
    IN  \/ req[r].called = <<"call_openai">> /\ ~OpenAI
        \/ /\ n >= 1
           /\ \/ cs[1].ret.kind = "raise"
              \/ \A i \in 1..n : IsFailed(cs[i])
              \/ SemanticError(cs[n])
              \/ Is200(cs[n]) /\ cs[n].api = "hf-inference" /\ ~cs[n].ret.json

\* C6: once a provider is selected the status is 200 with the text iff the
\* provider succeeded and 502 with the message iff it failed; a transport
\* error, a non-200 after the fallbacks, a 200 with an error field, a parse
\* error, a missing chat SDK and an exception in the chat call all give 502,
\* never 500 and never 200.
C6_ProviderFailureIs502 ==
    \A r \in Requests :
        (Done(r) /\ req[r].called # <<>>) =>
            /\ Len(Http(r)) = 1
            /\ Http(r)[1].status \in {200, 502}
            /\ (Http(r)[1].status = 200) <=> HasKey(Http(r)[1].body, "documentation")
            /\ (Http(r)[1].status = 502) <=> HasKey(Http(r)[1].body, "error")
            /\ ProviderFailed(r) => Http(r)[1].status = 502

-----------------------------------------------------------------------------
(* C7 *)

Occurrences(seq, x) == Cardinality({ i \in 1..Len(seq) : seq[i] = x })
FallbackTargets(r) == [i \in 1..(Len(Calls(r)) - 1) |-> Calls(r)[i + 1].to]

\* What C7 says of every case but the fallback models
C7_RequestCounts(r) ==
    LET cs == Calls(r)
        n == Len(cs)
        q == req[r]
    IN  /\ (q.called = <<"call_huggingface">> /\ n >= 1 /\ cs[1].ret.kind # "none"
              /\ ~Primary404(r)) => n = 1
        /\ Primary404(r) => n <= 1 + Len(ConfiguredFallbacks)
        /\ q.called = <<"call_openai">> => n <= 1
        /\ (q.called = <<"call_openai">> /\ ~OpenAI) => n = 0
        /\ q.called = <<>> => n = 0

\* C7 as written: only a primary 404 leads to more than one request, a primary
\* 404 to at most 1 + Len(fallback list), each fallback model contacted at
\* most once; call_openai makes at most one request, none without the SDK.
C7_EachFallbackModelAtMostOnce ==
    \A r \in Requests :
        /\ C7_RequestCounts(r)
        /\ Primary404(r) =>
               \A m \in { ConfiguredFallbacks[k] : k \in 1..Len(ConfiguredFallbacks) } :
                   Occurrences(FallbackTargets(r), m) <= 1

\* C7 amended: each entry of the fallback list is contacted at most once, so a
\* model is contacted at most as often as the list names it.
C7_EachFallbackEntryAtMostOnce ==
    \A r \in Requests :
        /\ C7_RequestCounts(r)
        /\ Primary404(r) =>
               \A m \in { ConfiguredFallbacks[k] : k \in 1..Len(ConfiguredFallbacks) } :
                   Occurrences(FallbackTargets(r), m) <= Occurrences(ConfiguredFallbacks, m)

\* The whole of a list that names one model twice was tried
C7_Witness ==
    \E r \in Requests :
        /\ Done(r)
        /\ Primary404(r)
        /\ ConfiguredFallbacks = << <<"a">>, <<"a">> >>
        /\ Len(Calls(r)) = 3

-----------------------------------------------------------------------------
(* C9 *)

\* The rules 1 to 4 of the normalizer, as the claim words them
Rule1(d) == IsList(d) /\ Len(Val(d)) > 0 /\ IsDict(Val(d)[1]) /\ HasKey(Val(d)[1], "generated_text")
Rule2(d) == IsDict(d) /\ HasKey(d, "generated_text")
Rule3(d) == IsDict(d) /\ HasKey(d, "error")
Rule4(d) ==
    /\ IsDict(d)
    /\ HasKey(d, "choices")
    /\ LET c == Lookup(d, "choices")
       IN  IsList(c) /\ Len(Val(c)) > 0 /\ IsDict(Val(c)[1]) /\ HasKey(Val(c)[1], "text")

\* C9: on the primary 200 path every decoded value that matches none of the
\* rules 1 to 4 gives success with the printed form of the whole value, never
\* a failure.
C9_LastResortNeverFails ==
    \A r \in Requests :
        LET cs == Calls(r)
        IN  (Done(r) /\ Len(cs) = 1 /\ cs[1].api = "hf-inference" /\ Is200(cs[1])
               /\ cs[1].ret.json
               /\ ~Rule1(cs[1].ret.body) /\ ~Rule2(cs[1].ret.body)
               /\ ~Rule3(cs[1].ret.body) /\ ~Rule4(cs[1].ret.body)) =>
                Http(r) = << HttpOf(Success(PyStr(cs[1].ret.body))) >>

-----------------------------------------------------------------------------
(* C8 *)

\* The chat response behind an entry of the call history
ChatOf(ret) == [kind |-> ret.kind, shape |-> ret.body[1], content |-> ret.body[2]]

\* The handler run alone from frame f over the returns cs[i], cs[i+1], ...
RECURSIVE ReplayFrom(_, _, _)
ReplayFrom(f, cs, i) ==
    IF i > Len(cs) \/ cs[i].ret.kind = "none" THEN f
    ELSE ReplayFrom(
           CASE f.pc = "primary" -> PrimaryReturn(f, cs[i].ret)
             [] f.pc = "fallback" -> FallbackReturn(f, cs[i].ret)
             [] f.pc = "chat" -> ChatReturn(f, ChatOf(cs[i].ret))
             [] OTHER -> f,
           cs, i + 1)

\* The frame request r would have had it been handled alone, with its own
\* inbound body, the configuration, and the returns of its own outbound calls
Alone(r) ==
    LET q == req[r]
        ctor == IF q.called = <<"call_openai">> /\ OpenAI /\ q.calls = <<>>
                THEN "OpenAIError" ELSE "ok"
    IN  IF q.pc \in {"accept", "closed"} THEN Frame(q.pc)
        ELSE ReplayFrom(generate_docs(Frame("accept"), q.raw, ctor), q.calls, 1)

\* C8: under every interleaving of two requests no step writes the
\* process-wide state (environment, OpenAI capability), a step of one request
\* leaves the frame of the other as it is, and each request's frame, its
\* response included, is the one it has when handled alone with the same body
\* and the same returns of its own outbound calls.
C8_RequestsDoNotInterfere ==
    /\ [](\A r \in Requests : req[r] = Alone(r))
    /\ [][ /\ environ' = environ
           /\ OpenAI' = OpenAI
           /\ \A r, x \in Requests :
                  (r # x /\ req'[r] # req[r]) => req'[x] = req[x] ]_vars

\* One request has answered 200 out of the fallback loop while the other,
\* which started first and got 404 too, is still in the loop
C8_Witness ==
    /\ Done("r1")
    /\ Primary404("r1")
    /\ Http("r1")[1].status = 200
    /\ req["r2"].pc = "fallback"
    /\ req["r2"].fm = 2

-----------------------------------------------------------------------------
(* C10 *)

WellFormed(h) ==
    /\ h.status \in {200, 400, 502, 500}
    /\ (h.status = 200) <=> HasKey(h.body, "documentation")
    /\ (h.status # 200) <=> HasKey(h.body, "error")

\* C10: when every outbound call returns or raises, every request gets a
\* response, and exactly one; its status is 200, 400, 502 or 500, and its
\* body has "documentation" iff the status is 200 and "error" otherwise.  The
\* fallback loop ends for every fallback list and every pattern of returns.
C10_EveryRequestAnsweredOnce ==
    /\ [](\A r \in Requests :
            /\ Len(Http(r)) <= 1
            /\ Done(r) <=> Len(Http(r)) = 1
            /\ \A i \in 1..Len(Http(r)) : WellFormed(Http(r)[i]))
    /\ \A r \in Requests : (req[r].pc = "accept") ~> Done(r)

\* A request answered after its three default fallbacks all failed
C10_Witness ==
    \E r \in Requests :
        /\ Done(r)
        /\ Len(Calls(r)) = 4
        /\ \A i \in 1..4 : IsFailed(Calls(r)[i])
        /\ Len(Http(r)) = 1

====
